---- MODULE Spec2Model ----
(***************************************************************************)
(* Windowed classifier pipeline of the aggressive-language detection API:  *)
(* utils.process_file / utils.detect_aggresive_language, called one job at *)
(* a time by the asynchronous service.                                     *)
(*                                                                         *)
(* Text is modelled structurally.  A source line is a record               *)
(*   [head : leading characters, nwords : whitespace-separated words,      *)
(*    nl : TRUE iff the line ends in a newline];                           *)
(* what readline() returns at end of file, the empty string, is EofLine.   *)
(* The window buffer pred_txt, built by  pred_txt + " " + l, is the        *)
(* sequence of the lines appended so far.  A collaborator response is a    *)
(* sequence of tokens, one of which is the marker.                         *)
(***************************************************************************)
EXTENDS Integers, Sequences, FiniteSets, TLC

\* ---------------------------------------------------------------- bounds
MaxLines == 4       \* longest source document of a single call, in lines
MaxCalls == 4       \* collaborator submissions followed within one call
MaxRequests == 2    \* process_file calls in one run of the service
MaxDocLines == 2    \* longest source document in a run of several calls
MaxTokens == 5      \* longest enumerated message content, in tokens

\* ------------------------------------------------------------- constants
max_words == 50

\* a path of the file system holds no file, or one file with a content
NoFile == <<>>
File(content) == <<content>>
Content(file) == file[1]

RECURSIVE Flatten(_)
Flatten(ss) == IF ss = <<>> THEN <<>> ELSE Head(ss) \o Flatten(Tail(ss))

\* ------------------------------------------------------------ str helpers
\* str.startswith
StartsWith(s, p) == Len(p) <= Len(s) /\ SubSeq(s, 1, Len(p)) = p

\* str.replace(old, new) for a one-character old
Replace(s, old, new) == [i \in 1..Len(s) |-> IF s[i] = old THEN new ELSE s[i]]

\* str.split(sep) for a one-token sep: n occurrences give n+1 segments
RECURSIVE SplitOn(_, _)
SplitOn(s, sep) ==
    IF \A i \in 1..Len(s) : s[i] # sep
    THEN <<s>>
    ELSE LET k == CHOOSE i \in 1..Len(s) :
                      s[i] = sep /\ \A j \in 1..(i-1) : s[j] # sep
         IN  <<SubSeq(s, 1, k-1)>> \o SplitOn(SubSeq(s, k+1, Len(s)), sep)

\* ----------------------------------------------------------------- lines
EofLine == [head |-> <<>>, nwords |-> 0, nl |-> FALSE]

Dashes3 == <<"-", "-", "-">>
Dashes5 == <<"-", "-", "-", "-", "-">>
Quote2 == <<"&", "g", "t", ";", "&", "g", "t", ";">>
Hashes3 == <<"#", "#", "#">>

Plain20 == [head |-> <<"w">>, nwords |-> 20, nl |-> TRUE]
Plain30 == [head |-> <<"w">>, nwords |-> 30, nl |-> TRUE]
DashLine == [head |-> Dashes5, nwords |-> 1, nl |-> TRUE]
QuoteLine == [head |-> Quote2 \o <<"1">>, nwords |-> 2, nl |-> TRUE]
HashLine == [head |-> Hashes3, nwords |-> 2, nl |-> TRUE]

BlankLine == [head |-> <<>>, nwords |-> 0, nl |-> TRUE]

LineValues == {Plain20, Plain30, BlankLine, DashLine, QuoteLine, HashLine}

RECURSIVE SeqsUpTo(_, _)
SeqsUpTo(S, n) ==
    IF n = 0 THEN {<<>>}
    ELSE LET shorter == SeqsUpTo(S, n - 1)
         IN  shorter \cup {Append(s, x) : s \in {t \in shorter : Len(t) = n - 1}, x \in S}

\* the documents a source_id can resolve to
Sources == SeqsUpTo(LineValues, MaxLines)

\* the documents of the runs of several calls
ShortSources == SeqsUpTo({Plain30, DashLine}, MaxDocLines)

\* len(pred_txt.split())
RECURSIVE Words(_)
Words(txt) == IF txt = <<>> THEN 0 ELSE Head(txt).nwords + Words(Tail(txt))

\* values of context['separator']
Separators == {Dashes5, Hashes3}

\* ------------------------------------------------------------ file names
FileNames == {<<"a", "/", "b">>, <<"a", "_", "b">>, <<"c">>}

\* utils.py:48-49
res_path(fname) == Replace(fname, "/", "_") \o <<"_processed.json">>

ResPaths == {res_path(f) : f \in FileNames}

\* the documents of the runs that explore the responses: one window each
ParseSources == {<<>>, <<Plain20>>, <<DashLine, Plain20>>}

\* ------------------------------------------------- collaborator responses
Marker == "threat_level_justification"
Sp == " "
Dq == "\""

\* message contents the model can answer with, and exception texts
ContentOk == <<"threat_level", Sp, "high", Sp, Marker, Sp, "Because">>
ContentNoMarker == <<"I", Sp, "cannot", Sp, "help">>
ContentTwoMarkers == <<"threat_level", Sp, "low", Sp, Marker, Sp, "see", Sp, Marker>>
ErrorText == <<"Connection", Sp, "error.">>

\* what chat.completions.create does: return a message or raise
Outcomes == { [raised |-> FALSE, content |-> ContentOk],
              [raised |-> FALSE, content |-> ContentNoMarker],
              [raised |-> FALSE, content |-> ContentTwoMarkers],
              [raised |-> TRUE, content |-> ErrorText] }

\* every message content of up to MaxTokens tokens, and the ones above
Tokens == {"threat_level", Sp, "high", Marker}

Contents ==
    SeqsUpTo(Tokens, MaxTokens) \cup {ContentOk, ContentNoMarker, ContentTwoMarkers}

ParseOutcomes ==
    {[raised |-> FALSE, content |-> c] : c \in Contents}
        \cup {[raised |-> TRUE, content |-> ErrorText]}

\* json.dumps of a str without characters to escape: the text in quotes
json_dumps(content) == <<Dq>> \o content \o <<Dq>>

\* utils.py:16-35: never raises, the status is "success" or "error"
detect_aggresive_language(text, o) ==
    IF o.raised THEN <<"error", o.content>>
    ELSE <<"success", json_dumps(o.content)>>

\* utils.py:75: the tuple unpacking needs exactly two segments
ParseOk(pred) == Len(SplitOn(pred, Marker)) = 2

\* utils.py:76: "".join(threat_level.split(' ')[1:])
ThreatLevel(pred) == Flatten(Tail(SplitOn(SplitOn(pred, Marker)[1], Sp)))

Justification(pred) == SplitOn(pred, Marker)[2]

\* variant: the split never fails, a missing second segment is empty
VerdictPartition(pred, txt) ==
    LET segs == SplitOn(pred, Marker)
    IN  [threat_level |-> Flatten(Tail(SplitOn(segs[1], Sp))),
         justification |-> IF Len(segs) >= 2 THEN segs[2] ELSE <<>>,
         response |-> pred, status |-> "ok", text |-> txt]

\* utils.py:71-96: the record d built for a window
Verdict(pred, txt) ==
    IF ParseOk(pred)
    THEN [threat_level |-> ThreatLevel(pred), justification |-> Justification(pred),
          response |-> pred, status |-> "ok", text |-> txt]
    ELSE [threat_level |-> <<>>, justification |-> <<>>,
          response |-> pred, status |-> "error", text |-> txt,
          error |-> <<"ValueError">>]

\* ------------------------------------------------------------ result file
\* variant: the response member is left out of the dump
json_dump_short(rs) ==
    [i \in 1..Len(rs) |->
        << <<"threat_level", rs[i].threat_level>>,
           <<"justification", rs[i].justification>>,
           <<"status", rs[i].status>>,
           <<"text", rs[i].text>> >>]

\* json.dump of the list of dicts: every dict becomes an object, its members
\* in insertion order
json_dump(rs) ==
    [i \in 1..Len(rs) |->
        << <<"threat_level", rs[i].threat_level>>,
           <<"justification", rs[i].justification>>,
           <<"response", rs[i].response>>,
           <<"status", rs[i].status>>,
           <<"text", rs[i].text>> >>]

\* json.load: every object becomes a dict keyed by its member names
json_load(doc) ==
    [i \in 1..Len(doc) |->
        [k \in {doc[i][j][1] : j \in 1..Len(doc[i])} |->
            LET j == CHOOSE n \in 1..Len(doc[i]) : doc[i][n][1] = k
            IN  doc[i][j][2]]]

\* ------------------------------------------------------------------ state
VARIABLES
    store,      \* /nycc_data/processed/: result path -> NoFile or File(content)
    pc,         \* position of the process_file call: idle, loop, write, done, raised
    fname,      \* argument file of the current call
    sep,        \* kwargs['separator'] of the current call
    inf,        \* lines of the source document opened by the current call
    pos,        \* readline calls made on inf so far, plus one
    pred_txt,   \* window buffer
    resp,       \* ResultSet under construction, the return value once pc = "done"
    calls,      \* history: windows submitted to the collaborator by the current call
    answer,     \* history: what the collaborator did with the last submission
    nwrites,    \* history: writes of the result file by the current call
    hit,        \* history: the current call found its result file
    cur,        \* history: the source document as it was when the current call began
    written,    \* history: result path -> the list dumped to it, its source and file
    prev,       \* history: file, outcome and return value of the previous call
    reqs,       \* calls started so far
    \* nyc_api.py, the synchronous service
    thr,        \* handler of /predict/ on each pool thread: position and locals
    sync_context, \* the module's context dict: client, result, file_processed
    updated,    \* history: url of the last update_client request
    target,     \* history: url of the last completion request since the last update
    swrites,    \* history: result path -> writes by the /predict/ handlers
    \* nyc_api_async.py, the asynchronous service
    q,          \* the asyncio.Queue of the lifespan: items not taken yet
    db,         \* the module's db dict: job id -> entry
    worker,     \* position of process_requests: waiting, running or dead
    item,       \* the item process_requests has taken from q
    context,    \* the context dict of the server process
    pool,       \* the context dicts of the worker processes of the pool
    proc,       \* the context dict of the process that runs the current task
    marking,    \* /generatetopics handlers between put_nowait and db[id] = ...
    submitted,  \* history: the items in the order they were put on q
    started,    \* history: the items in the order they were taken from q
    ended,      \* history: the tasks that ended, in order, and how
    returned,   \* history: the job ids handed to clients
    asked,      \* history: the last /getitem request and its answer
    cfg,        \* history: job id -> context when it was submitted, if not updated since
    \* app-4chan.py and alt-4chan-formsubmit-with-boto3-and-merge.py, the scrapers
    script,     \* which of the two scripts runs
    rpc,        \* position of run: idle, scroll, next, merge, done, raised
    max_scrolls, \* argument of run
    scroll_count,
    last_thread_count,
    current_page_number,
    onboard,    \* the browser shows the board page it last went to, not a thread
    outdir,     \* output_dir exists
    top,        \* thread ids of the <id>.txt files directly in output_dir
    sub,        \* thread ids of the <id>.txt files in output_dir/<board>
    visited,    \* history: numbers of the board pages the browser went to
    scraped,    \* history: numbers of the board pages scrape_page was called on
    saved,      \* history: thread ids of the files scrape_page saved in this run
    merged      \* history: thread ids whose content is in the merged file

\* the state of utils.process_file and of the directory of result files
callvars == <<store, pc, fname, sep, inf, pos, pred_txt, resp, calls, answer,
              nwrites, hit, cur, written, prev, reqs>>

\* the state of the synchronous service
syncvars == <<thr, sync_context, updated, target, swrites>>

\* the state of the asynchronous service
asyncvars == <<q, db, worker, item, context, pool, proc, marking, submitted,
               started, ended, returned, asked, cfg>>

\* the state of a run of a scraper
scrapevars == <<script, rpc, max_scrolls, scroll_count, last_thread_count,
                current_page_number, onboard, outdir, top, sub, visited,
                scraped, saved, merged>>

\* what a step of utils.process_file leaves alone
services == <<syncvars, asyncvars, scrapevars>>

vars == <<callvars, services>>

\* ------------------------------------------ nyc_api.py: synchronous service
MaxThreads == 2     \* /predict/ requests handled in one run, on pool threads

\* the requests, numbered in their order of arrival
Threads == 1..MaxThreads

\* nyc_api.py:23
api_url == "3.239.235.136:8081"

\* values of the url parameter of /updateclient/
Urls == {api_url, "10.0.0.7:8000"}

NoUrl == ""

\* Python's None, and a value that is not None
None == <<>>
Some(v) == <<v>>

\* a pool thread that has not been given its request yet
IdleThread ==
    [pc |-> "idle", file |-> <<>>, lines |-> <<>>, i |-> 1, resp |-> <<>>,
     opened |-> FALSE]

\* ------------------------------------- nyc_api_async.py: asynchronous service
MaxJobs == 2        \* jobs submitted in one run of the asynchronous service

\* the uuid4 strings of the jobs, in the order they are drawn
Ids == 1..MaxJobs

\* nyc_api_async.py:60-71: the keys of context that cpu_bound_task reads
InitContext ==
    [client |-> "13.220.128.167:8000", llm_model |-> "DarkIdol",
     temperature |-> "0.3", separator |-> Dashes5]

\* bodies of /configure requests
ConfigItems ==
    {[name |-> "separator", value |-> Hashes3]}

NoItem == [id |-> 0, task |-> "", file |-> <<>>]

\* entries of db
Absent == [status |-> "absent"]
Pending == [status |-> "pending"]
InProgress == [status |-> "in_progress"]
Complete(r) == [status |-> "complete", result |-> r]

NoAsk == [id |-> 0, code |-> 0, body |-> Absent]

\* ------------------------------------------------------------ the scrapers
MaxPages == 3       \* pages of the board, the last one has no next-page form
MaxScrolls == 2     \* largest max_scrolls argument

\* ids of the threads of the board
ThreadIds == {1, 2}

\* the scripts with merge_files
Scripts == {"app-4chan", "alt-merge"}

NoAnswer == [raised |-> FALSE, content |-> <<>>]

NoPrev == [file |-> <<>>, outcome |-> "none", ret |-> <<>>]

Init ==
    /\ store = [p \in ResPaths |-> NoFile]
    /\ written = [p \in ResPaths |-> NoFile]
    /\ pc = "idle"
    /\ fname = <<>>
    /\ sep = Dashes5
    /\ inf = <<>>
    /\ pos = 1
    /\ pred_txt = <<>>
    /\ resp = <<>>
    /\ calls = <<>>
    /\ answer = NoAnswer
    /\ nwrites = 0
    /\ hit = FALSE
    /\ cur = NoFile
    /\ prev = NoPrev
    /\ reqs = 0
    /\ thr = [t \in Threads |-> IdleThread]
    /\ sync_context = [client |-> api_url, topic_model |-> api_url,
                       file_processed |-> None, result |-> None]
    /\ updated = NoUrl
    /\ target = NoUrl
    /\ swrites = [p \in ResPaths |-> 0]
    /\ q = <<>>
    /\ db = [id \in Ids |-> Absent]
    /\ worker = "waiting"
    /\ item = NoItem
    /\ context = InitContext
    /\ pool = {}
    /\ proc = InitContext
    /\ marking = {}
    /\ submitted = <<>>
    /\ started = <<>>
    /\ ended = <<>>
    /\ returned = {}
    /\ asked = NoAsk
    /\ cfg = [id \in Ids |-> None]
    /\ script = "app-4chan"
    /\ rpc = "idle"
    /\ max_scrolls = 0
    /\ scroll_count = 0
    /\ last_thread_count = 0
    /\ current_page_number = 2
    /\ onboard = FALSE
    /\ outdir = FALSE
    /\ top = {}
    /\ sub = {}
    /\ visited = {}
    /\ scraped = {}
    /\ saved = {}
    /\ merged = None

\* variant: the result file is never found
ExistsNever(path) == FALSE

\* os.path.exists(res_path)
Exists(path) == store[path] # NoFile

\* utils.py:64-65: the prefixes that make the loop skip a line
Skipped(l) == StartsWith(l.head, Dashes3) \/ StartsWith(l.head, Quote2)

\* variant: the end of the file does not force the flush
KeepAccumulatingNoEof(txt, l) == Words(txt) < max_words

\* variant: the test counts characters, at least two for every word
KeepAccumulatingChars(txt, l) == 2 * Words(txt) < max_words /\ l # EofLine

\* utils.py:69: the window is too short and the source has more lines
KeepAccumulating(txt, l) == Words(txt) < max_words /\ l # EofLine

\* inf.readline(): the next line, or '' at the end of the file
ReadLine == IF pos <= Len(inf) THEN inf[pos] ELSE EofLine

\* entry of process_file once the previous call has returned or raised
Begin(f, s, src) ==
    /\ pc \in {"idle", "done", "raised"}
    /\ reqs' = reqs + 1
    /\ prev' = [file |-> fname, outcome |-> pc, ret |-> resp]
    /\ fname' = f
    /\ sep' = s
    /\ cur' = src
    /\ calls' = <<>>
    /\ answer' = NoAnswer
    /\ nwrites' = 0
    /\ pred_txt' = <<>>
    /\ pos' = 1
    /\ UNCHANGED services

\* variant: the loaded list is not the one returned
CacheHitEmpty(f, s, doc) ==
    /\ Begin(f, s, File(doc))
    /\ Exists(res_path(f))
    /\ resp' = <<>>
    /\ hit' = TRUE
    /\ inf' = <<>>
    /\ pc' = "done"
    /\ UNCHANGED <<store, written>>

\* utils.py:44-53 and 110: the result file exists, load and return it; doc is
\* the source document at that time, which this path does not open
CacheHit(f, s, doc) ==
    /\ Begin(f, s, File(doc))
    /\ Exists(res_path(f))
    /\ resp' = json_load(Content(store[res_path(f)]))
    /\ hit' = TRUE
    /\ inf' = <<>>
    /\ pc' = "done"
    /\ UNCHANGED <<store, written>>

\* variant: the result file is created when the source opens
OpenSourceTouch(f, s, doc) ==
    /\ Begin(f, s, File(doc))
    /\ ~Exists(res_path(f))
    /\ resp' = <<>>
    /\ hit' = FALSE
    /\ inf' = doc
    /\ pc' = "loop"
    /\ store' = [store EXCEPT ![res_path(f)] = File(json_dump(<<>>))]
    /\ written' = [written EXCEPT ![res_path(f)] = File([rs |-> <<>>, src |-> File(doc), file |-> f])]

\* utils.py:44-58: no result file, the source opens
OpenSource(f, s, doc) ==
    /\ Begin(f, s, File(doc))
    /\ ~Exists(res_path(f))
    /\ resp' = <<>>
    /\ hit' = FALSE
    /\ inf' = doc
    /\ pc' = "loop"
    /\ UNCHANGED <<store, written>>

\* variant: the failure to open is swallowed and the empty list is written
SourceNotFoundEmpty(f, s) ==
    /\ Begin(f, s, NoFile)
    /\ ~Exists(res_path(f))
    /\ resp' = <<>>
    /\ hit' = FALSE
    /\ inf' = <<>>
    /\ pc' = "write"
    /\ UNCHANGED <<store, written>>

\* utils.py:56: no result file and open() raises FileNotFoundError
SourceNotFound(f, s) ==
    /\ Begin(f, s, NoFile)
    /\ ~Exists(res_path(f))
    /\ resp' = <<>>
    /\ hit' = FALSE
    /\ inf' = <<>>
    /\ pc' = "raised"
    /\ UNCHANGED <<store, written>>

\* utils.py:62-65: a line with a skip prefix, next iteration
SkipLine ==
    /\ pc = "loop"
    /\ Skipped(ReadLine)
    /\ pos' = pos + 1
    /\ UNCHANGED <<store, written, pc, fname, sep, inf, pred_txt, resp, calls,
                   answer, nwrites, hit, cur, prev, reqs>>
    /\ UNCHANGED services

\* utils.py:62-69: the line joins the window, which is still too short
Accumulate ==
    /\ pc = "loop"
    /\ LET l == ReadLine
           txt == Append(pred_txt, l)
       IN  /\ ~Skipped(l)
           /\ KeepAccumulating(txt, l)
           /\ pred_txt' = txt
    /\ pos' = pos + 1
    /\ UNCHANGED <<store, written, pc, fname, sep, inf, resp, calls, answer,
                   nwrites, hit, cur, prev, reqs>>
    /\ UNCHANGED services

\* variant: the error record is appended like an ok one
FlushKeepErrors(o) ==
    /\ pc = "loop"
    /\ Len(calls) < MaxCalls
    /\ LET l == ReadLine
           txt == Append(pred_txt, l)
           rsp == detect_aggresive_language(txt, o)
           d == Verdict(rsp[2], txt)
       IN  /\ ~Skipped(l)
           /\ ~KeepAccumulating(txt, l)
           /\ calls' = Append(calls, [text |-> txt, ok |-> d.status = "ok"])
           /\ answer' = o
           /\ pos' = pos + 1
           /\ resp' = Append(resp, d)
           /\ pred_txt' = <<>>
           /\ pc' = IF l = EofLine THEN "write" ELSE "loop"
    /\ UNCHANGED <<store, written, fname, sep, inf, nwrites, hit, cur, prev, reqs>>
    /\ UNCHANGED services

\* variant: the buffer is not emptied after a Verdict has been appended
FlushNoReset(o) ==
    /\ pc = "loop"
    /\ Len(calls) < MaxCalls
    /\ LET l == ReadLine
           txt == Append(pred_txt, l)
           rsp == detect_aggresive_language(txt, o)
           d == Verdict(rsp[2], txt)
       IN  /\ ~Skipped(l)
           /\ ~KeepAccumulating(txt, l)
           /\ calls' = Append(calls, [text |-> txt, ok |-> d.status = "ok"])
           /\ answer' = o
           /\ pos' = pos + 1
           /\ pred_txt' = txt
           /\ IF d.status = "error"
              THEN UNCHANGED <<resp, pc>>
              ELSE /\ resp' = Append(resp, d)
                   /\ pc' = IF l = EofLine THEN "write" ELSE "loop"
    /\ UNCHANGED <<store, written, fname, sep, inf, nwrites, hit, cur, prev, reqs>>
    /\ UNCHANGED services

\* utils.py:62-105: the line joins the window and the window is submitted;
\* o is what the collaborator does with it
Flush(o) ==
    /\ pc = "loop"
    /\ Len(calls) < MaxCalls
    /\ LET l == ReadLine
           txt == Append(pred_txt, l)
           rsp == detect_aggresive_language(txt, o)
           d == Verdict(rsp[2], txt)
       IN  /\ ~Skipped(l)
           /\ ~KeepAccumulating(txt, l)
           /\ calls' = Append(calls, [text |-> txt, ok |-> d.status = "ok"])
           /\ answer' = o
           /\ pos' = pos + 1
           /\ IF d.status = "error"
              THEN /\ pred_txt' = txt
                   /\ UNCHANGED <<resp, pc>>
              ELSE /\ resp' = Append(resp, d)
                   /\ pred_txt' = <<>>
                   /\ pc' = IF l = EofLine THEN "write" ELSE "loop"
    /\ UNCHANGED <<store, written, fname, sep, inf, nwrites, hit, cur, prev, reqs>>
    /\ UNCHANGED services

\* utils.py:107-110: dump the list and return it
WriteResult ==
    /\ pc = "write"
    /\ store' = [store EXCEPT ![res_path(fname)] = File(json_dump(resp))]
    /\ written' = [written EXCEPT ![res_path(fname)] = File([rs |-> resp, src |-> cur, file |-> fname])]
    /\ nwrites' = nwrites + 1
    /\ pc' = "done"
    /\ UNCHANGED <<fname, sep, inf, pos, pred_txt, resp, calls, answer, hit,
                   cur, prev, reqs>>
    /\ UNCHANGED services

\* the loop and the write of one call
Step ==
    \/ SkipLine
    \/ Accumulate
    \/ \E o \in Outcomes : Flush(o)
    \/ WriteResult

\* the service: calls one after another on short documents, with the
\* separator the context starts with
Next ==
    \/ reqs < MaxRequests /\ \E f \in FileNames, doc \in ShortSources :
           CacheHit(f, Dashes5, doc)
    \/ reqs < MaxRequests /\ \E f \in FileNames, doc \in ShortSources :
           OpenSource(f, Dashes5, doc)
    \/ reqs < MaxRequests /\ \E f \in FileNames : SourceNotFound(f, Dashes5)
    \/ Step

Spec == Init /\ [][Next]_vars

\* one call on an empty cache, for every document up to MaxLines lines
NextWindow ==
    \/ pc = "idle" /\ \E s \in Separators, doc \in Sources :
           OpenSource(<<"a", "/", "b">>, s, doc)
    \/ pc = "idle" /\ \E s \in Separators : SourceNotFound(<<"a", "/", "b">>, s)
    \/ Step

SpecWindow == Init /\ [][NextWindow]_vars

\* one call on an empty cache with a one-window document: the first
\* submission is answered by any message content up to MaxTokens tokens, the
\* later ones as in the other runs
NextParse ==
    \/ pc = "idle" /\ \E doc \in ParseSources : OpenSource(<<"c">>, Dashes5, doc)
    \/ SkipLine
    \/ Accumulate
    \/ calls = <<>> /\ \E o \in ParseOutcomes : Flush(o)
    \/ calls # <<>> /\ \E o \in Outcomes : Flush(o)
    \/ WriteResult

SpecParse == Init /\ [][NextParse]_vars

\* ------------------------------------------ nyc_api.py: synchronous service
\* nyc_api.py:146-150: the record of a line, without status and response
SyncVerdict(pred, l) ==
    [threat_level |-> ThreatLevel(pred), justification |-> Justification(pred),
     text |-> l]

\* json.dump of the list of these records
sync_json_dump(rs) ==
    [i \in 1..Len(rs) |->
        << <<"threat_level", rs[i].threat_level>>,
           <<"justification", rs[i].justification>>,
           <<"text", rs[i].text>> >>]

\* the documents of the runs of the synchronous service
SyncSources == {<<>>, <<DashLine, Plain30>>}

\* the file names of the requests to the synchronous service
SyncFiles == {<<"a", "/", "b">>, <<"c">>}

\* the request that arrives next is given to the next thread
Arrives(t) == thr[t].pc = "idle" /\ \A u \in 1..(t-1) : thr[u].pc # "idle"

\* nyc_api.py:128-135: the result file exists and is loaded
SyncHit(t, f) ==
    /\ Arrives(t)
    /\ Exists(res_path(f))
    /\ thr' = [thr EXCEPT ![t] = [pc |-> "publish", file |-> f, lines |-> <<>>,
                                  i |-> 1, opened |-> FALSE,
                                  resp |-> json_load(Content(store[res_path(f)]))]]
    /\ UNCHANGED <<sync_context, updated, target, swrites>>
    /\ UNCHANGED <<callvars, asyncvars, scrapevars>>

\* nyc_api.py:128-139: no result file, the source opens and readlines()
\* returns its lines
SyncOpen(t, f, doc) ==
    /\ Arrives(t)
    /\ ~Exists(res_path(f))
    /\ thr' = [thr EXCEPT ![t] = [pc |-> IF doc = <<>> THEN "write" ELSE "classify",
                                  file |-> f, lines |-> doc, i |-> 1,
                                  resp |-> <<>>, opened |-> TRUE]]
    /\ UNCHANGED <<sync_context, updated, target, swrites>>
    /\ UNCHANGED <<callvars, asyncvars, scrapevars>>

\* nyc_api.py:138: no result file and open() raises FileNotFoundError
SyncNotFound(t, f) ==
    /\ Arrives(t)
    /\ ~Exists(res_path(f))
    /\ thr' = [thr EXCEPT ![t] = [IdleThread EXCEPT !.pc = "raised", !.file = f]]
    /\ UNCHANGED <<sync_context, updated, target, swrites>>
    /\ UNCHANGED <<callvars, asyncvars, scrapevars>>

\* nyc_api.py:139-162: one line is sent to the client of the context and its
\* record is appended, or nothing if the answer does not parse
SyncClassify(t, o) ==
    /\ thr[t].pc = "classify"
    /\ LET l == thr[t].lines[thr[t].i]
           rsp == detect_aggresive_language(<<l>>, o)
           last == thr[t].i = Len(thr[t].lines)
       IN  thr' = [thr EXCEPT
                      ![t].resp = IF ParseOk(rsp[2])
                                  THEN Append(@, SyncVerdict(rsp[2], <<l>>))
                                  ELSE @,
                      ![t].i = @ + 1,
                      ![t].pc = IF last THEN "write" ELSE "classify"]
    /\ target' = sync_context.client
    /\ UNCHANGED <<sync_context, updated, swrites>>
    /\ UNCHANGED <<callvars, asyncvars, scrapevars>>

\* nyc_api.py:164-165: the list is dumped to the result path
SyncWrite(t) ==
    /\ thr[t].pc = "write"
    /\ store' = [store EXCEPT ![res_path(thr[t].file)] =
                     File(sync_json_dump(thr[t].resp))]
    /\ swrites' = [swrites EXCEPT ![res_path(thr[t].file)] = @ + 1]
    /\ thr' = [thr EXCEPT ![t].pc = "publish"]
    /\ UNCHANGED <<sync_context, updated, target>>
    /\ UNCHANGED <<pc, fname, sep, inf, pos, pred_txt, resp, calls, answer,
                   nwrites, hit, cur, written, prev, reqs, asyncvars,
                   scrapevars>>

\* nyc_api.py:167-179: the context takes the result, which is returned
SyncPublish(t) ==
    /\ thr[t].pc = "publish"
    /\ sync_context' = [sync_context EXCEPT !.file_processed = Some(thr[t].file),
                                            !.result = Some(thr[t].resp)]
    /\ thr' = [thr EXCEPT ![t].pc = "done"]
    /\ UNCHANGED <<updated, target, swrites>>
    /\ UNCHANGED <<callvars, asyncvars, scrapevars>>

\* nyc_api.py:94-117: a client is built for api_url and stored in the context
update_client(url) ==
    /\ sync_context' = [sync_context EXCEPT !.client = api_url,
                                            !.topic_model = api_url]
    /\ updated' = url
    /\ target' = NoUrl
    /\ UNCHANGED <<thr, swrites>>
    /\ UNCHANGED <<callvars, asyncvars, scrapevars>>

\* the synchronous service: requests on the threads of the pool
NextSync ==
    \/ \E t \in Threads, f \in SyncFiles : SyncHit(t, f)
    \/ \E t \in Threads, f \in SyncFiles, doc \in SyncSources : SyncOpen(t, f, doc)
    \/ \E t \in Threads, f \in SyncFiles : SyncNotFound(t, f)
    \/ \E t \in Threads, o \in Outcomes : SyncClassify(t, o)
    \/ \E t \in Threads : SyncWrite(t)
    \/ \E t \in Threads : SyncPublish(t)
    \/ \E url \in Urls : update_client(url)

SpecSync == Init /\ [][NextSync]_vars

\* ------------------------------------- nyc_api_async.py: asynchronous service
\* str(uuid.uuid4()): an id no earlier job has
NextId == Len(submitted) + 1

\* the jobs put on q that process_requests has not taken
Queued(id) == \E k \in 1..Len(q) : q[k].id = id

\* nyc_api_async.py:180-193: the item is put on q and its id returned; db is
\* not touched
predict(f) ==
    /\ Len(submitted) < MaxJobs
    /\ LET it == [id |-> NextId, task |-> "predict", file |-> f]
       IN  /\ q' = Append(q, it)
           /\ submitted' = Append(submitted, it)
           /\ returned' = returned \cup {it.id}
           /\ cfg' = [cfg EXCEPT ![it.id] = Some(context)]
    /\ UNCHANGED <<db, worker, item, context, pool, proc, marking, started,
                   ended, asked>>
    /\ UNCHANGED <<callvars, syncvars, scrapevars>>

\* nyc_api_async.py:232-239: a pool thread puts the item on q
gen_topics_put(f) ==
    /\ Len(submitted) < MaxJobs
    /\ LET it == [id |-> NextId, task |-> "topics", file |-> f]
       IN  /\ q' = Append(q, it)
           /\ submitted' = Append(submitted, it)
           /\ marking' = marking \cup {it.id}
           /\ cfg' = [cfg EXCEPT ![it.id] = Some(context)]
    /\ UNCHANGED <<db, worker, item, context, pool, proc, started, ended,
                   returned, asked>>
    /\ UNCHANGED <<callvars, syncvars, scrapevars>>

\* nyc_api_async.py:240-241: the same thread marks the job and returns its id
gen_topics_mark(id) ==
    /\ id \in marking
    /\ db' = [db EXCEPT ![id] = Pending]
    /\ marking' = marking \ {id}
    /\ returned' = returned \cup {id}
    /\ UNCHANGED <<q, worker, item, context, pool, proc, submitted, started,
                   ended, asked, cfg>>
    /\ UNCHANGED <<callvars, syncvars, scrapevars>>

\* nyc_api_async.py:212-217, for an id a client was given
get_item(id) ==
    /\ id \in returned
    /\ asked' = [id |-> id, code |-> IF db[id] = Absent THEN 404 ELSE 200,
                 body |-> db[id]]
    /\ UNCHANGED <<q, db, worker, item, context, pool, proc, marking,
                   submitted, started, ended, returned, cfg>>
    /\ UNCHANGED <<callvars, syncvars, scrapevars>>

\* nyc_api_async.py:145-153: the context of the server process is updated
update_context(ci) ==
    /\ context' = [context EXCEPT ![ci.name] = ci.value]
    /\ cfg' = [id \in Ids |-> IF Queued(id) THEN None ELSE cfg[id]]
    /\ UNCHANGED <<q, db, worker, item, pool, proc, marking, submitted,
                   started, ended, returned, asked>>
    /\ UNCHANGED <<callvars, syncvars, scrapevars>>

\* the context a process of the pool has when the executor gives it a task:
\* an existing process keeps its own; a new one has the server's as it is
\* now (start method fork) or the one of the module's import (spawn)
ProcessContexts == pool \cup {context, InitContext}

\* variant: the next item is taken while a task is still running
DequeueEager ==
    /\ worker \in {"waiting", "running"}
    /\ q # <<>>
    /\ item' = Head(q)
    /\ q' = Tail(q)
    /\ db' = [db EXCEPT ![Head(q).id] = InProgress]
    /\ started' = Append(started, Head(q))
    /\ worker' = "running"
    /\ \E c \in ProcessContexts : proc' = c /\ pool' = pool \cup {c}
    /\ UNCHANGED <<context, marking, submitted, ended, returned, asked, cfg>>
    /\ UNCHANGED <<callvars, syncvars, scrapevars>>

\* nyc_api_async.py:110-114: process_requests takes the next item, marks it
\* in_progress and hands cpu_bound_task to the pool
Dequeue ==
    /\ worker = "waiting"
    /\ q # <<>>
    /\ item' = Head(q)
    /\ q' = Tail(q)
    /\ db' = [db EXCEPT ![Head(q).id] = InProgress]
    /\ started' = Append(started, Head(q))
    /\ worker' = "running"
    /\ \E c \in ProcessContexts : proc' = c /\ pool' = pool \cup {c}
    /\ UNCHANGED <<context, marking, submitted, ended, returned, asked, cfg>>
    /\ UNCHANGED <<callvars, syncvars, scrapevars>>

\* the predict tasks handed to the pool so far
PredictsStarted == Cardinality({k \in 1..Len(started) : started[k].task = "predict"})

\* cpu_bound_task has not called process_file yet
CallPending == worker = "running" /\ item.task = "predict" /\ reqs < PredictsStarted

\* the process_file call of cpu_bound_task has returned or raised
CallOver ==
    /\ worker = "running" /\ item.task = "predict"
    /\ reqs = PredictsStarted
    /\ pc \in {"done", "raised"}

\* nyc_api_async.py:81-84: process_file is called with the keys of the
\* context of the process
TaskOpen(doc) == CallPending /\ OpenSource(item.file, proc.separator, doc)
TaskNotFound == CallPending /\ SourceNotFound(item.file, proc.separator)

\* nyc_api_async.py:105-106 and 114: process_file has raised, or it has
\* returned its list and  res['id'] = item.id  raises TypeError; the
\* exception leaves run_in_executor and ends process_requests
PredictEnds ==
    /\ CallOver
    /\ worker' = "dead"
    /\ ended' = Append(ended, [id |-> item.id, task |-> item.task,
                               classify |-> pc, raised |-> TRUE])
    /\ UNCHANGED <<q, db, item, context, pool, proc, marking, submitted,
                   started, returned, asked, cfg>>
    /\ UNCHANGED <<callvars, syncvars, scrapevars>>

\* nyc_api_async.py:86-93, 105-106 and 114-120: generate_topics returns its
\* dict, which takes the id and becomes the result of the job, or it raises
TopicsEnds(ok) ==
    /\ worker = "running" /\ item.task = "topics"
    /\ ended' = Append(ended, [id |-> item.id, task |-> item.task,
                               classify |-> "none", raised |-> ~ok])
    /\ IF ok
       THEN /\ db' = [db EXCEPT ![item.id] =
                          Complete([filename |-> item.file, id |-> item.id])]
            /\ worker' = "waiting"
       ELSE /\ worker' = "dead"
            /\ UNCHANGED db
    /\ UNCHANGED <<q, item, context, pool, proc, marking, submitted, started,
                   returned, asked, cfg>>
    /\ UNCHANGED <<callvars, syncvars, scrapevars>>

\* the asynchronous service: the handlers, process_requests and the task in
\* the pool.  The directory of result files starts empty and the first
\* predict task ends process_requests, so no task finds a result file.
NextAsync ==
    \/ predict(<<"c">>)
    \/ gen_topics_put(<<"c">>)
    \/ \E id \in Ids : gen_topics_mark(id)
    \/ \E id \in Ids : get_item(id)
    \/ \E ci \in ConfigItems : update_context(ci)
    \/ Dequeue
    \/ \E doc \in ParseSources : TaskOpen(doc)
    \/ TaskNotFound
    \/ Step
    \/ PredictEnds
    \/ \E ok \in BOOLEAN : TopicsEnds(ok)

SpecAsync == Init /\ [][NextAsync]_vars

\* ------------------------------------------------------------ the scrapers
\* the head of the inner loop:  while scroll_count < max_scrolls
LoopHead(sc, ms) == IF sc < ms THEN "scroll" ELSE "next"

\* app-4chan.py:70-92: the browser goes to the first page of the board; the
\* output directory may be there from before, without files
run(sc, ms, dir) ==
    /\ rpc = "idle"
    /\ script' = sc
    /\ max_scrolls' = ms
    /\ scroll_count' = 0
    /\ last_thread_count' = 0
    /\ current_page_number' = 2
    /\ onboard' = TRUE
    /\ visited' = {1}
    /\ outdir' = dir
    /\ rpc' = LoopHead(0, ms)
    /\ UNCHANGED <<top, sub, scraped, saved, merged>>
    /\ UNCHANGED <<callvars, syncvars, asyncvars>>

\* app-4chan.py:92-114 and 146-212: scrape_page is called on what the
\* browser shows; ids are the threads its query finds there, and appeared
\* tells whether a thread is found after the scroll
Scroll(ids, appeared) ==
    /\ rpc = "scroll"
    /\ LET found == Cardinality(ids)
       IN  /\ scraped' = IF onboard THEN scraped \cup {current_page_number - 1}
                                    ELSE scraped
           /\ onboard' = (onboard /\ ids = {})
           /\ outdir' = (outdir \/ ids # {})
           /\ saved' = saved \cup ids
           /\ IF script = "app-4chan"
              THEN sub' = sub \cup ids /\ top' = top
              ELSE top' = top \cup ids /\ sub' = sub
           /\ IF found = last_thread_count
              THEN /\ rpc' = "next"
                   /\ UNCHANGED <<last_thread_count, scroll_count>>
              ELSE /\ last_thread_count' = found
                   /\ scroll_count' = scroll_count + 1
                   /\ rpc' = IF appeared THEN LoopHead(scroll_count + 1, max_scrolls)
                                         ELSE "raised"
    /\ UNCHANGED <<script, max_scrolls, current_page_number, visited, merged>>
    /\ UNCHANGED <<callvars, syncvars, asyncvars>>

\* app-4chan.py:116-127: the browser goes to the next page; has_next tells
\* whether that page has the form of a next page
NextPage(has_next) ==
    /\ rpc = "next"
    /\ visited' = visited \cup {current_page_number}
    /\ current_page_number' = current_page_number + 1
    /\ scroll_count' = 0
    /\ onboard' = TRUE
    /\ rpc' = IF has_next THEN LoopHead(0, max_scrolls) ELSE "merge"
    /\ UNCHANGED <<script, max_scrolls, last_thread_count, outdir, top, sub,
                   scraped, saved, merged>>
    /\ UNCHANGED <<callvars, syncvars, asyncvars>>

\* app-4chan.py:133-143 and 246-257: merged_file.txt is opened for writing
\* in output_dir and takes the content of every .txt file that listdir
\* finds there; app-4chan.py then deletes the directory
merge_files ==
    /\ rpc = "merge"
    /\ IF outdir
       THEN /\ merged' = Some(top)
            /\ rpc' = "done"
            /\ IF script = "app-4chan"
               THEN outdir' = FALSE /\ top' = {} /\ sub' = {}
               ELSE UNCHANGED <<outdir, top, sub>>
       ELSE /\ rpc' = "raised"
            /\ UNCHANGED <<merged, outdir, top, sub>>
    /\ UNCHANGED <<script, max_scrolls, scroll_count, last_thread_count,
                   current_page_number, onboard, visited, scraped, saved>>
    /\ UNCHANGED <<callvars, syncvars, asyncvars>>

\* one run of a scraper on a board of up to MaxPages pages
NextScrape ==
    \/ \E sc \in Scripts, ms \in 0..MaxScrolls, dir \in BOOLEAN : run(sc, ms, dir)
    \/ \E ids \in SUBSET ThreadIds, appeared \in BOOLEAN : Scroll(ids, appeared)
    \/ \E has_next \in BOOLEAN :
           (has_next => current_page_number < MaxPages) /\ NextPage(has_next)
    \/ merge_files

SpecScrape == Init /\ [][NextScrape]_vars

\* ----------------------------------------------------------------- claims
\* the lines of a document that the loop does not skip
NonSkipped(doc) == SelectSeq(doc, LAMBDA l : ~Skipped(l))

\* the current call missed the cache and opened its source
Opened == pc \in {"loop", "write", "done"} /\ ~hit

\* readline has returned '' in the current call
EofRead == Opened /\ pos > Len(inf) + 1

\* what the current call would find at its result path
Persisted == written[res_path(fname)]

\* C1: on a cache hit process_file returns the list that was dumped to the
\* result path, submits nothing to the collaborator and writes nothing,
\* whatever the source document holds at that time.
C1_CacheHit ==
    (pc = "done" /\ hit) =>
        /\ resp = Content(Persisted).rs
        /\ store[res_path(fname)] = File(json_dump(resp))
        /\ calls = <<>>
        /\ nwrites = 0

\* a hit on a non-empty result while the source differs from the classified one
C1_Witness ==
    /\ pc = "done" /\ hit
    /\ resp # <<>>
    /\ cur # File(Content(Persisted).src)

\* C2: a result file that exists is never changed by a later step of any call.
C2_WriteOnce ==
    [][\A p \in ResPaths : store[p] # NoFile => store'[p] = store[p]]_vars

\* a later call for a file whose result was written before, after the source
\* has grown, has left the result file as it was written
C2_Witness ==
    /\ pc = "done" /\ hit /\ reqs >= 2
    /\ prev.outcome = "done" /\ prev.file = fname
    /\ cur # NoFile /\ Len(Content(cur)) > Len(Content(Persisted).src)
    /\ store[res_path(fname)] = File(json_dump(Content(Persisted).rs))

\* C3: a call for the file of the previous, completed call returns what that
\* call returned and submits nothing to the collaborator.
C3_Idempotent ==
    (pc = "done" /\ prev.outcome = "done" /\ prev.file = fname) =>
        /\ resp = prev.ret
        /\ calls = <<>>

\* the second call of a run repeats the first, which classified the source
C3_Witness ==
    /\ pc = "done" /\ reqs = 2
    /\ prev.outcome = "done" /\ prev.file = fname
    /\ Len(resp) >= 1 /\ Words(resp[1].text) >= max_words

\* C4 (as claimed): the iteration that reads the end of the source ends the
\* loop, so that no iteration follows it, whatever the collaborator does.
C4_Terminates == (Opened /\ pc = "loop") => pos <= Len(inf) + 1

\* C5 (as claimed): for a source without lines nothing is submitted to the
\* collaborator and the returned ResultSet is empty.
C5_EmptySource ==
    (Opened /\ inf = <<>>) => (calls = <<>> /\ (pc = "done" => resp = <<>>))

\* the lines of window a and of window b overlap: b begins with a
CarriesOver(a, b) == StartsWith(b, a)

\* C6 (as claimed): after a failed submission the next window is built from
\* the following lines only, and a failure of the last window does not keep
\* the loop running.
C6_FailureIsolation ==
    \A i \in 1..Len(calls) :
        ~calls[i].ok =>
            /\ (i < Len(calls) => ~CarriesOver(calls[i].text, calls[i+1].text))
            /\ (i = Len(calls) /\ EofRead => pc # "loop")

\* the windows of the submissions that succeeded, in order
OkWindows ==
    LET oks == SelectSeq(calls, LAMBDA c : c.ok)
    IN  [i \in 1..Len(oks) |-> oks[i].text]

\* C7: the list under construction, the returned list and every result file
\* hold records of status ok only; the list has one record per submission
\* that succeeded, in order, and none for a submission that failed.
C7_OnlyOk ==
    /\ \A i \in 1..Len(resp) : resp[i].status = "ok"
    /\ Opened => [i \in 1..Len(resp) |-> resp[i].text] = OkWindows
    /\ \A p \in ResPaths :
          Exists(p) =>
              LET rs == json_load(Content(store[p]))
              IN  \A i \in 1..Len(rs) : rs[i].status = "ok"

\* a call that returned a non-empty list although a submission failed
C7_Witness ==
    /\ pc = "done" /\ ~hit
    /\ resp # <<>>
    /\ \E j \in 1..Len(calls) : ~calls[j].ok
    /\ Exists(res_path(fname))

\* C8: once the end of a source with fewer than max_words words in its
\* non-skipped lines has been read, the window of all these lines has been
\* submitted.
C8_EofFlush ==
    (Opened /\ pos > Len(inf) + 1 /\ Words(NonSkipped(inf)) < max_words) =>
        /\ Len(calls) >= 1
        /\ calls[1].text = Append(NonSkipped(inf), EofLine)

\* the end of a short source with words and a skipped line has been read
C8_Witness ==
    /\ EofRead
    /\ Words(NonSkipped(inf)) \in 1..(max_words - 1)
    /\ Len(NonSkipped(inf)) < Len(inf)
    /\ Len(calls) >= 1

\* a window holds a line that begins with the configured separator
HasSeparatorLine(txt) == \E k \in 1..Len(txt) : StartsWith(txt[k].head, sep)

\* C9 (as claimed): no line that begins with the configured separator is in
\* the window buffer, in a submitted window or in a Verdict.
C9_CommentSkip ==
    Opened =>
        /\ ~HasSeparatorLine(pred_txt)
        /\ \A j \in 1..Len(calls) : ~HasSeparatorLine(calls[j].text)
        /\ \A i \in 1..Len(resp) : ~HasSeparatorLine(resp[i].text)

\* the word count of the non-skipped lines reaches max_words on the last line
ReachesOnFinalLine(doc) ==
    /\ doc # <<>>
    /\ ~Skipped(doc[Len(doc)])
    /\ Words(NonSkipped(doc)) >= max_words
    /\ Words(NonSkipped(SubSeq(doc, 1, Len(doc) - 1))) < max_words

\* C10 (as claimed): for such a source the whole call submits exactly one
\* window, the one of all its lines in order.
C10_OneWindow ==
    (Opened /\ pc = "done" /\ ReachesOnFinalLine(inf)) =>
        /\ Len(calls) = 1
        /\ calls[1].text = NonSkipped(inf)


\* C11: a call whose source cannot be opened, with no result file at its
\* path, ends by raising; it submits nothing and leaves the path without a
\* file.
C11_SourceNotFound ==
    (reqs > 0 /\ cur = NoFile) =>
        /\ pc = "raised"
        /\ store[res_path(fname)] = NoFile
        /\ nwrites = 0
        /\ calls = <<>>

\* a call has raised after an earlier call completed for another key
C11_Witness ==
    /\ pc = "raised" /\ cur = NoFile
    /\ prev.outcome = "done"
    /\ \E p \in ResPaths : Exists(p) /\ p # res_path(fname)


\* the string the last submission gave to the parser
LastPred == detect_aggresive_language(<<>>, answer)[2]

LastCall == calls[Len(calls)]
LastVerdict == resp[Len(resp)]

IsWord(t) == t # Sp /\ t # Marker

MarkerCount(c) == Cardinality({k \in 1..Len(c) : c[k] = Marker})

\* the content is  <label word> <level> threat_level_justification<text>
HasForm(c) ==
    /\ Len(c) >= 5
    /\ IsWord(c[1]) /\ c[2] = Sp /\ IsWord(c[3]) /\ c[4] = Sp /\ c[5] = Marker
    /\ MarkerCount(c) = 1

\* C12 (as claimed): for a message of that form the Verdict holds the level
\* as threat_level and the text after the marker, verbatim, as justification.
C12_ParserResult ==
    (calls # <<>> /\ ~answer.raised /\ HasForm(answer.content)) =>
        /\ LastCall.ok
        /\ LastVerdict.threat_level = <<answer.content[3]>>
        /\ LastVerdict.justification = SubSeq(answer.content, 6, Len(answer.content))

\* C13: a submission answered without the marker appends no Verdict and
\* counts as failed.
C13_NoMarkerNoVerdict ==
    [][(Len(calls') = Len(calls) + 1 /\ MarkerCount(answer'.content) = 0) =>
           (resp' = resp /\ ~calls'[Len(calls')].ok)]_vars

\* a message without the marker has been received and the list is empty
C13_Witness ==
    /\ calls # <<>> /\ ~answer.raised
    /\ Len(answer.content) >= 1 /\ MarkerCount(answer.content) = 0
    /\ ~LastCall.ok /\ resp = <<>>


\* C14 (as claimed): the text of a window whose submission failed is not
\* submitted again by the same call.
C14_NoRetry ==
    \A i \in 1..Len(calls) : \A j \in (i+1)..Len(calls) :
        ~calls[i].ok => ~CarriesOver(calls[i].text, calls[j].text)

\* C15 (as claimed): after a failed submission the buffer is empty, so that
\* the next window and the later Verdicts start from the following lines.
C15_NoCarryForward ==
    (Opened /\ pc = "loop" /\ calls # <<>> /\ ~LastCall.ok) => pred_txt = <<>>


\* what follows the first marker in a string
AfterFirstMarker(s) ==
    LET k == CHOOSE i \in 1..Len(s) : s[i] = Marker /\ \A j \in 1..(i-1) : s[j] # Marker
    IN  SubSeq(s, k + 1, Len(s))

\* C16 (as claimed): a response with two or more markers parses, a Verdict is
\* appended and its justification is all that follows the first marker.
C16_FirstMarkerSplit ==
    (calls # <<>> /\ MarkerCount(LastPred) >= 2) =>
        /\ LastCall.ok
        /\ LastVerdict.justification = AfterFirstMarker(LastPred)


\* the submission was made in an iteration that read a line, not the end
BeforeEof(c) == c.text[Len(c.text)] # EofLine

\* C17: a window submitted before the end of the source has been read holds
\* at least max_words words; a shorter one is submitted only at the end.
C17_FlushThreshold ==
    \A j \in 1..Len(calls) : BeforeEof(calls[j]) => Words(calls[j].text) >= max_words

\* a full window was submitted before the end and a short one at the end
C17_Witness ==
    /\ Len(calls) >= 2
    /\ BeforeEof(calls[1]) /\ calls[1].ok
    /\ ~BeforeEof(LastCall) /\ Words(LastCall.text) \in 1..(max_words - 1)


\* every submission of the current call succeeded
AllOk == \A j \in 1..Len(calls) : calls[j].ok

\* the texts of a list of Verdicts or of submissions, in order
Texts(rs) == [i \in 1..Len(rs) |-> rs[i].text]

\* the source lines of a text: all but what readline returned at the end
SourceLines(txt) == SelectSeq(txt, LAMBDA l : l # EofLine)

\* the lines of the source read so far
LinesRead == SubSeq(inf, 1, IF pos - 1 <= Len(inf) THEN pos - 1 ELSE Len(inf))

\* C18: while every submission succeeds, the windows submitted and the
\* Verdict texts, taken in order and followed by the buffer, hold the
\* non-skipped lines read so far, each once and in source order; at the end
\* the Verdict texts hold all the non-skipped lines of the source.
C18_OrderCoverage ==
    (Opened /\ AllOk) =>
        /\ SourceLines(Flatten(Texts(resp)) \o pred_txt) = NonSkipped(LinesRead)
        /\ Texts(calls) = Texts(resp)
        /\ pc \in {"write", "done"} =>
               SourceLines(Flatten(Texts(resp))) = NonSkipped(inf)

\* a call completed without a failure, with two windows and a skipped line
C18_Witness ==
    /\ Opened /\ pc = "done" /\ AllOk
    /\ Len(resp) >= 2 /\ Words(resp[1].text) > 0 /\ Words(resp[2].text) > 0
    /\ Len(NonSkipped(inf)) < Len(inf)


\* C19: a call that missed the cache leaves its result path without a file
\* while it runs and when it raises, and has written the file exactly once,
\* with the complete list, when it has returned.
C19_WriteAtCompletion ==
    (reqs > 0 /\ ~hit) =>
        /\ pc \in {"loop", "write", "raised"} =>
               (store[res_path(fname)] = NoFile /\ nwrites = 0)
        /\ pc = "done" =>
               /\ nwrites = 1
               /\ store[res_path(fname)] = File(json_dump(resp))
               /\ EofRead /\ pred_txt = <<>>

\* a call is about to write a list of two Verdicts and has written nothing
C19_Witness ==
    /\ pc = "write" /\ ~hit
    /\ Len(resp) >= 2
    /\ store[res_path(fname)] = NoFile


\* C20 (as claimed): for a source with a word in a non-skipped line no
\* submitted window and no Verdict text is without words.
C20_NoBlankWindow ==
    (Opened /\ Words(NonSkipped(inf)) >= 1) =>
        /\ \A j \in 1..Len(calls) : Words(calls[j].text) > 0
        /\ \A i \in 1..Len(resp) : Words(resp[i].text) > 0


\* C21 (as claimed): a call that is answered from a result file is answered
\* from the file written by a call for the same source_id; two distinct
\* source_ids never share a result path.
C21_KeyIsolation ==
    (pc = "done" /\ hit) => Content(Persisted).file = fname


\* C22 (as claimed): of the /predict/ requests for one file name that arrive
\* while no result file exists, at most one classifies the source, and the
\* result path is written at most once.
C22_SyncWriteOnce ==
    /\ \A p \in ResPaths : swrites[p] <= 1
    /\ \A t, u \in Threads :
          (t # u /\ thr[t].opened /\ thr[u].opened) => thr[t].file # thr[u].file


\* the ids of a sequence of items or of task ends, in order
IdsOf(s) == [k \in 1..Len(s) |-> s[k].id]

\* C23: process_requests takes the jobs in the order they were put on q, and
\* takes a job only when the task of every job taken before it has ended:
\* at most one task runs, and a job that is in progress or later in the
\* order of submission than one not ended has not started.
C23_OneAtATime ==
    /\ Len(started) <= Len(submitted)
    /\ started = SubSeq(submitted, 1, Len(started))
    /\ Len(ended) <= Len(started) /\ Len(started) <= Len(ended) + 1
    /\ IdsOf(ended) = SubSeq(IdsOf(started), 1, Len(ended))
    /\ worker = "running" <=> Len(started) = Len(ended) + 1
    /\ pc \in {"loop", "write"} => (worker = "running" /\ item.task = "predict")

\* a second job was taken after the first had completed, while its
\* classification runs
C23_Witness ==
    /\ Len(started) = 2 /\ Len(ended) = 1
    /\ db[started[1].id].status = "complete"
    /\ item.task = "predict" /\ pc = "loop" /\ calls # <<>>


\* C24 (as claimed): once the task of a /predict job whose process_file call
\* returned has ended, db holds the job as complete with the returned list
\* as result.
C24_JobCompletes ==
    \A k \in 1..Len(ended) :
        (ended[k].task = "predict" /\ ended[k].classify = "done") =>
            db[ended[k].id] = Complete(resp)

\* C25 (as claimed): after a task has raised, process_requests is still
\* running: it waits for the next item or runs the task of a later one.
C25_WorkerSurvives ==
    (\E k \in 1..Len(ended) : ended[k].raised) => worker \in {"waiting", "running"}

\* C26 (as claimed): every job id handed to a client is a key of db, and
\* /getitem for such an id does not answer 404.
C26_IdVisible ==
    /\ \A id \in returned : db[id] # Absent
    /\ asked.code # 404

\* C27 (as claimed): the process_file call of a /predict job runs with the
\* context as the /configure requests answered before the job's submission
\* left it, when none has been answered since.
C27_ConfigVisible ==
    (worker = "running" /\ item.task = "predict" /\ cfg[item.id] # None) =>
        /\ proc = cfg[item.id][1]
        /\ pc \in {"loop", "write", "done"} => sep = cfg[item.id][1].separator


\* C28 (as claimed): once update_client(url) has returned, the client of the
\* context targets url, and so does every completion request sent since.
C28_ClientUrl ==
    updated # NoUrl =>
        /\ sync_context.client = updated
        /\ target \in {NoUrl, updated}


\* C29 (as claimed): when run has finished, the merged file holds the
\* content of every thread file scrape_page saved during the run.
C29_MergeComplete ==
    rpc = "done" => (merged # None /\ saved \subseteq merged[1])

\* C30 (as claimed): when the page loop has ended, scrape_page has been
\* called on every board page the browser went to, the last one included.
C30_PageCoverage ==
    rpc \in {"merge", "done"} => visited \subseteq scraped

====
